---- MODULE Spec2Model ----
(***************************************************************************)
(* The OS bootstrap shim of c/os.c: sqlite3_os_init registers the demo VFS *)
(* with the engine's VFS registry, sqlite3_os_end does nothing.            *)
(*                                                                         *)
(* The registry (sqlite3_vfs_register / sqlite3_vfs_unregister and the     *)
(* list they keep), the constructor sqlite3_demovfs and the status codes   *)
(* are the engine's, not os.c's; they are modelled after the engine's      *)
(* contract.  The registry is a list without duplicates whose head is the  *)
(* default backend.                                                        *)
(*                                                                         *)
(* Two specifications:                                                     *)
(*   Spec      one caller; every call of the shim is one step, and the     *)
(*             host may register and unregister backends between calls.    *)
(*   SpecConc  two threads inside sqlite3_os_init, interleaved at the      *)
(*             calls the function makes; registration is one atomic step.  *)
(***************************************************************************)
EXTENDS Naturals, Sequences, FiniteSets

\* Bound on the number of calls of the shim in one run of Spec.
MaxCalls == 4

\* ------------------------------------------------------------------------
\* The engine's side
\* ------------------------------------------------------------------------

\* Status codes of the engine.
SQLITE_OK == 0
SQLITE_NOMEM == 7

\* The statuses a registration call can end with: it fails, leaving the
\* registry alone, when the engine cannot initialise or allocate.
RegistryStatus == {SQLITE_OK, SQLITE_NOMEM}

\* The descriptor of the shim's backend and the descriptors of the other
\* backends a host may register.
DemoVfs == "demo"
OtherVfs == {"unix", "memdb"}
AllVfs == {DemoVfs} \cup OtherVfs

\* The external constructor: hands out the one static descriptor.
sqlite3_demovfs == DemoVfs

\* The registry without the entry for p.
vfsUnlink(list, p) == SelectSeq(list, LAMBDA v : v # p)

\* The registry after registering p: any old entry for p is unlinked, then
\* p goes to the head (the default) when asked to or when the list is empty,
\* and right behind the head otherwise.
vfsLink(list, p, makeDflt) ==
    LET l == vfsUnlink(list, p)
    IN  IF makeDflt # 0 \/ l = <<>>
        THEN <<p>> \o l
        ELSE <<Head(l), p>> \o Tail(l)

\* One registration call whose engine-side status is rc.
sqlite3_vfs_register(list, p, makeDflt, rc) ==
    IF rc = SQLITE_OK THEN vfsLink(list, p, makeDflt) ELSE list

\* The engine's unregistration call.
sqlite3_vfs_unregister(list, p) == vfsUnlink(list, p)

\* The default backend of a registry, or "none" when it is empty.
DefaultVfs(list) == IF list = <<>> THEN "none" ELSE Head(list)

\* The set of entries of a registry and the number of entries for p.
Entries(list) == {list[i] : i \in 1..Len(list)}
CountOf(list, p) == Cardinality({i \in 1..Len(list) : list[i] = p})

\* ------------------------------------------------------------------------
\* c/os.c
\* ------------------------------------------------------------------------

\* A variant that asks for the backend to be made the default.
OsInitMakeDfltSet == 0 + 1

\* The second argument of the registration call in sqlite3_os_init.
OsInitMakeDflt == 0

\* A variant that submits another descriptor than the constructor's.
OsInitDescriptorOther(made) == "unix"

\* The first argument of the registration call: what the constructor returned.
OsInitDescriptor(made) == made

\* A variant that hands the registration's status to the caller.
OsInitReturnChecked(rc) == rc

\* The status sqlite3_os_init returns; rc, the registration's status, is dropped.
OsInitReturn(rc) == 0

\* A variant of sqlite3_os_end that reports an error.
OsEndReturnError == 0 + 1

\* The status sqlite3_os_end returns.
OsEndReturn == 0

\* A variant of sqlite3_os_end that unregisters the backend.
OsEndRegistryUnregisters(list) == sqlite3_vfs_unregister(list, sqlite3_demovfs)

\* The registry after sqlite3_os_end: untouched.
OsEndRegistry(list) == list

\* A variant of sqlite3_os_end that registers the backend again.
OsEndCallsRegisters == <<"sqlite3_demovfs", "sqlite3_vfs_register">>

\* The external calls sqlite3_os_end makes: none.
OsEndCalls == <<>>

\* The external calls sqlite3_os_init makes, in order.
OsInitCalls == <<"sqlite3_demovfs", "sqlite3_vfs_register">>

\* How often fn occurs in a sequence of calls.
CountCalls(cs, fn) == Cardinality({i \in 1..Len(cs) : cs[i] = fn})

VARIABLES
    vfsList,    \* the engine's registry; its head is the default backend
    phase,      \* lifecycle state the host keeps for the OS layer
    lastCall,   \* what acted last: "none", "init", "end" or "host"
    prevCall,   \* what acted before that
    pre,        \* the registry before the last step
    ret,        \* status the last call of the shim returned
    regRc,      \* status of the registration made by the last call
    prevRegRc,  \* regRc before the last step
    calls,      \* names of the external functions the last call invoked, in order
    made,       \* descriptors the constructor returned during the last call
    reqs,       \* registration requests the last call submitted
    nInit,      \* calls of sqlite3_os_init so far
    nEnd,       \* calls of sqlite3_os_end so far
    nCtor,      \* invocations of sqlite3_demovfs so far
    nReg,       \* registration requests issued by the shim so far
    pc,         \* SpecConc: where each thread is inside sqlite3_os_init
    tVfs,       \* SpecConc: the descriptor each thread got from the constructor
    tRc,        \* SpecConc: the status each thread's registration ended with
    tRet        \* SpecConc: the status each thread's call returned

seqVars == <<phase, lastCall, prevCall, pre, ret, regRc, prevRegRc, calls, made,
             reqs, nInit, nEnd, nCtor, nReg>>
concVars == <<pc, tVfs, tRc, tRet>>
vars == <<vfsList, seqVars, concVars>>

Threads == {1, 2}

\* Registries the engine can hold: lists of backends without duplicates.
Registries ==
    {l \in UNION {[1..n -> AllVfs] : n \in 0..Cardinality(AllVfs)} :
        \A i, j \in 1..Len(l) : i # j => l[i] # l[j]}

\* "No status yet", for a call that has not got that far.
NoStatus == <<>>

SeqInit ==
    /\ phase = "UNINITIALIZED"
    /\ lastCall = "none"
    /\ prevCall = "none"
    /\ pre = <<>>
    /\ ret = SQLITE_OK
    /\ regRc = SQLITE_OK
    /\ prevRegRc = SQLITE_OK
    /\ calls = <<>>
    /\ made = <<>>
    /\ reqs = <<>>
    /\ nInit = 0
    /\ nEnd = 0
    /\ nCtor = 0
    /\ nReg = 0

ConcIdle ==
    /\ pc = [t \in Threads |-> "idle"]
    /\ tVfs = [t \in Threads |-> "none"]
    /\ tRc = [t \in Threads |-> NoStatus]
    /\ tRet = [t \in Threads |-> NoStatus]

\* A process starts with an empty registry.
Init ==
    /\ vfsList = <<>>
    /\ SeqInit
    /\ ConcIdle

\* sqlite3_os_init, as one step.  engineRc is the status the engine's
\* registration call ends with.
sqlite3_os_init ==
    /\ nInit + nEnd < MaxCalls
    /\ \E engineRc \in RegistryStatus :
        LET p == sqlite3_demovfs
            arg == OsInitDescriptor(p)
            status == OsInitReturn(engineRc)
        IN  /\ vfsList' = sqlite3_vfs_register(vfsList, arg, OsInitMakeDflt, engineRc)
            /\ calls' = OsInitCalls
            /\ made' = <<p>>
            /\ reqs' = <<[pVfs |-> arg, makeDflt |-> OsInitMakeDflt]>>
            /\ regRc' = engineRc
            /\ ret' = status
            /\ phase' = IF status = SQLITE_OK THEN "INITIALIZED" ELSE phase
    /\ pre' = vfsList
    /\ prevRegRc' = regRc
    /\ prevCall' = lastCall
    /\ lastCall' = "init"
    /\ nInit' = nInit + 1
    /\ nCtor' = nCtor + CountCalls(calls', "sqlite3_demovfs")
    /\ nReg' = nReg + CountCalls(calls', "sqlite3_vfs_register")
    /\ UNCHANGED <<nEnd, concVars>>

\* sqlite3_os_end, as one step.
sqlite3_os_end ==
    /\ nInit + nEnd < MaxCalls
    /\ vfsList' = OsEndRegistry(vfsList)
    /\ calls' = OsEndCalls
    /\ made' = <<>>
    /\ reqs' = <<>>
    /\ ret' = OsEndReturn
    /\ phase' = "UNINITIALIZED"
    /\ pre' = vfsList
    /\ prevRegRc' = regRc
    /\ prevCall' = lastCall
    /\ lastCall' = "end"
    /\ nEnd' = nEnd + 1
    /\ nCtor' = nCtor + CountCalls(calls', "sqlite3_demovfs")
    /\ nReg' = nReg + CountCalls(calls', "sqlite3_vfs_register")
    /\ UNCHANGED <<regRc, nInit, concVars>>

\* The host registers another backend, as the default or not.
HostRegister ==
    /\ \E v \in OtherVfs, makeDflt \in {0, 1} :
        vfsList' = sqlite3_vfs_register(vfsList, v, makeDflt, SQLITE_OK)
    /\ pre' = vfsList
    /\ prevRegRc' = regRc
    /\ prevCall' = lastCall
    /\ lastCall' = "host"
    /\ UNCHANGED <<phase, ret, regRc, calls, made, reqs, nInit, nEnd, nCtor, nReg,
                   concVars>>

\* The host unregisters a backend.
HostUnregister ==
    /\ \E v \in AllVfs : vfsList' = sqlite3_vfs_unregister(vfsList, v)
    /\ pre' = vfsList
    /\ prevRegRc' = regRc
    /\ prevCall' = lastCall
    /\ lastCall' = "host"
    /\ UNCHANGED <<phase, ret, regRc, calls, made, reqs, nInit, nEnd, nCtor, nReg,
                   concVars>>

Next ==
    \/ sqlite3_os_init
    \/ sqlite3_os_end
    \/ HostRegister
    \/ HostUnregister

Spec == Init /\ [][Next]_vars

\* ------------------------------------------------------------------------
\* Two threads inside sqlite3_os_init
\* ------------------------------------------------------------------------

\* Both threads have entered sqlite3_os_init; the registry is whatever the
\* host left in it.
InitConc ==
    /\ vfsList \in Registries
    /\ SeqInit
    /\ pc = [t \in Threads |-> "ctor"]
    /\ tVfs = [t \in Threads |-> "none"]
    /\ tRc = [t \in Threads |-> NoStatus]
    /\ tRet = [t \in Threads |-> NoStatus]

\* Thread t evaluates the argument sqlite3_demovfs().
T_Ctor(t) ==
    /\ pc[t] = "ctor"
    /\ tVfs' = [tVfs EXCEPT ![t] = sqlite3_demovfs]
    /\ pc' = [pc EXCEPT ![t] = "register"]
    /\ UNCHANGED <<vfsList, tRc, tRet, seqVars>>

\* Thread t calls sqlite3_vfs_register, which runs under the engine's mutex.
T_Register(t) ==
    /\ pc[t] = "register"
    /\ \E engineRc \in RegistryStatus :
        /\ vfsList' = sqlite3_vfs_register(vfsList, OsInitDescriptor(tVfs[t]),
                                           OsInitMakeDflt, engineRc)
        /\ tRc' = [tRc EXCEPT ![t] = <<engineRc>>]
    /\ pc' = [pc EXCEPT ![t] = "return"]
    /\ UNCHANGED <<tVfs, tRet, seqVars>>

\* Thread t returns from sqlite3_os_init.
T_Return(t) ==
    /\ pc[t] = "return"
    /\ tRet' = [tRet EXCEPT ![t] = <<OsInitReturn(tRc[t][1])>>]
    /\ pc' = [pc EXCEPT ![t] = "done"]
    /\ UNCHANGED <<vfsList, tVfs, tRc, seqVars>>

NextConc ==
    \E t \in Threads :
        \/ T_Ctor(t)
        \/ T_Register(t)
        \/ T_Return(t)

SpecConc == InitConc /\ [][NextConc]_vars

AllDone == \A t \in Threads : pc[t] = "done"

\* ------------------------------------------------------------------------
\* Properties
\* ------------------------------------------------------------------------

AfterInit == lastCall = "init"
AfterEnd == lastCall = "end"
RegOk == regRc = SQLITE_OK
Holds(list, p) == p \in Entries(list)

\* C1 as stated: after any call of sqlite3_os_init the registry holds the
\* constructor's descriptor and it is the default backend, whatever the
\* registry held before.
C1_AsStated ==
    AfterInit =>
        /\ Holds(vfsList, sqlite3_demovfs)
        /\ DefaultVfs(vfsList) = sqlite3_demovfs

\* C1, amended: after a call of sqlite3_os_init whose registration succeeded
\* the registry holds exactly one entry for the constructor's descriptor, and
\* that entry is the default exactly when the registry held no other backend
\* before the call; a call whose registration failed leaves the registry as
\* it was.
C1_RegisteredDefaultIfAlone ==
    AfterInit =>
        /\ RegOk =>
            /\ CountOf(vfsList, sqlite3_demovfs) = 1
            /\ DefaultVfs(vfsList) = sqlite3_demovfs
                   <=> Entries(pre) \subseteq {sqlite3_demovfs}
        /\ ~RegOk => vfsList = pre

\* A successful sqlite3_os_init on a registry whose default was another backend.
C1_Witness ==
    /\ AfterInit
    /\ RegOk
    /\ pre # <<>>
    /\ Head(pre) \in OtherVfs
    /\ Holds(vfsList, sqlite3_demovfs)
    /\ DefaultVfs(vfsList) # sqlite3_demovfs

\* C2: every call of sqlite3_os_init and of sqlite3_os_end returns status 0,
\* however often the pair is repeated.
C2_EveryCallReturnsZero ==
    lastCall \in {"init", "end"} => ret = 0

\* init; end; init; end has run.
C2_Witness ==
    /\ nInit = 2
    /\ nEnd = 2
    /\ AfterEnd
    /\ prevCall = "init"
    /\ ret = 0

\* C3: sqlite3_os_end leaves the registry as it was (same entries, same
\* default), so the entry a preceding, successful sqlite3_os_init installed
\* is still there after init; end.
C3_EndLeavesRegistry ==
    AfterEnd =>
        /\ vfsList = pre
        /\ Entries(vfsList) = Entries(pre)
        /\ DefaultVfs(vfsList) = DefaultVfs(pre)
        /\ (prevCall = "init" /\ RegOk) => Holds(vfsList, sqlite3_demovfs)

\* init; end on a registry that holds the backend beside another one.
C3_Witness ==
    /\ AfterEnd
    /\ prevCall = "init"
    /\ RegOk
    /\ Holds(vfsList, sqlite3_demovfs)
    /\ Len(vfsList) >= 2

\* C4 as stated: after sqlite3_os_init twice in succession both calls have
\* returned 0, the registry holds exactly one entry for the backend and the
\* same set of entries as after the first call.
C4_AsStated ==
    (AfterInit /\ prevCall = "init") =>
        /\ ret = 0
        /\ CountOf(vfsList, sqlite3_demovfs) = 1
        /\ Entries(vfsList) = Entries(pre)

\* C4, amended: the registry never holds more than one entry for the backend;
\* after a call of sqlite3_os_init that returned 0 with its registration
\* succeeded it holds exactly one; and when sqlite3_os_init is called twice in
\* succession and the first registration succeeded, the second call returns 0
\* and leaves the registry with the same entries as after the first.
C4_InitTwiceOneEntry ==
    /\ CountOf(vfsList, sqlite3_demovfs) <= 1
    /\ AfterInit => ret = 0
    /\ (AfterInit /\ RegOk) => CountOf(vfsList, sqlite3_demovfs) = 1
    /\ (AfterInit /\ prevCall = "init" /\ prevRegRc = SQLITE_OK) =>
        /\ CountOf(vfsList, sqlite3_demovfs) = 1
        /\ Entries(vfsList) = Entries(pre)
        /\ vfsList = pre

\* sqlite3_os_init twice in succession, both registrations succeeded, with
\* another backend registered.
C4_Witness ==
    /\ AfterInit
    /\ prevCall = "init"
    /\ RegOk
    /\ prevRegRc = SQLITE_OK
    /\ ret = 0
    /\ Len(vfsList) >= 2
    /\ CountOf(vfsList, sqlite3_demovfs) = 1

\* C5: sqlite3_os_init returns 0 also when the registration call failed; the
\* registry is then as before and need not hold the backend.
C5_FailureSwallowed ==
    (AfterInit /\ ~RegOk) =>
        /\ ret = 0
        /\ vfsList = pre

\* A call whose registration failed, returned 0 and left the backend out.
C5_Witness ==
    /\ AfterInit
    /\ regRc = SQLITE_NOMEM
    /\ ret = 0
    /\ ~Holds(vfsList, sqlite3_demovfs)

\* C6 as stated: the make-default flag of the request sqlite3_os_init
\* submits is set (non-zero) on every call.
C6_AsStated ==
    AfterInit => \A i \in 1..Len(reqs) : reqs[i].makeDflt # 0

\* C6, amended: every call of sqlite3_os_init submits one registration
\* request, and its make-default flag is 0 (not set).
C6_FlagIsZero ==
    AfterInit =>
        /\ Len(reqs) = 1
        /\ reqs[1].makeDflt = 0

\* A call of sqlite3_os_init has submitted its request.
C6_Witness ==
    /\ AfterInit
    /\ Len(reqs) = 1
    /\ reqs[1].pVfs = sqlite3_demovfs
    /\ reqs[1].makeDflt = 0
    /\ nInit = 2

C9_DefaultKept ==
    AfterInit =>
        /\ (pre # <<>> /\ Head(pre) # sqlite3_demovfs) =>
            /\ DefaultVfs(vfsList) = Head(pre)
            /\ RegOk => (Len(vfsList) >= 2 /\ vfsList[2] = sqlite3_demovfs)
        /\ (DefaultVfs(vfsList) = sqlite3_demovfs /\ DefaultVfs(pre) # sqlite3_demovfs)
               => pre = <<>>

\* The backend was registered behind an existing default.
C9_Witness ==
    /\ AfterInit
    /\ RegOk
    /\ pre # <<>>
    /\ Head(pre) # sqlite3_demovfs
    /\ Len(vfsList) >= 2
    /\ vfsList[2] = sqlite3_demovfs
    /\ vfsList[1] = Head(pre)

\* C10: a call of sqlite3_os_init invokes the constructor once and then the
\* registration function once, submitting the descriptor the constructor
\* returned; sqlite3_os_end invokes neither; so the registration requests
\* issued so far are as many as the calls of sqlite3_os_init.
C10_CallsMade ==
    /\ AfterInit =>
        /\ calls = <<"sqlite3_demovfs", "sqlite3_vfs_register">>
        /\ Len(made) = 1
        /\ Len(reqs) = 1
        /\ reqs[1].pVfs = made[1]
    /\ AfterEnd => (calls = <<>> /\ made = <<>> /\ reqs = <<>>)
    /\ nReg = nInit
    /\ nCtor = nInit

\* Two calls of sqlite3_os_init and two of sqlite3_os_end have been made.
C10_Witness ==
    /\ nInit = 2
    /\ nEnd = 2
    /\ nReg = 2
    /\ nCtor = 2

\* C8 as stated: once both threads have returned from sqlite3_os_init, both
\* returned 0 and the registry holds exactly one entry for the backend.
C8_AsStated ==
    AllDone =>
        /\ \A t \in Threads : tRet[t] = <<0>>
        /\ CountOf(vfsList, sqlite3_demovfs) = 1

SomeRegOk == \E t \in Threads : tRc[t] = <<SQLITE_OK>>

\* C8, amended: once both threads have returned from sqlite3_os_init, both
\* returned 0 and the registry holds at most one entry for the backend,
\* exactly one when at least one of the two registrations succeeded; and a
\* step of one thread changes, beside that thread's own locals, nothing but
\* the registry.
C8_ConcurrentInit ==
    /\ [](AllDone =>
            /\ \A t \in Threads : tRet[t] = <<0>>
            /\ CountOf(vfsList, sqlite3_demovfs) <= 1
            /\ SomeRegOk => CountOf(vfsList, sqlite3_demovfs) = 1)
    /\ [][ /\ UNCHANGED seqVars
           /\ \E t \in Threads : \A u \in Threads \ {t} :
                /\ pc'[u] = pc[u]
                /\ tVfs'[u] = tVfs[u]
                /\ tRc'[u] = tRc[u]
                /\ tRet'[u] = tRet[u]
         ]_vars

\* Both threads are done, one registration failed and one succeeded, beside
\* another backend in the registry.
C8_Witness ==
    /\ AllDone
    /\ \E t, u \in Threads : tRc[t] = <<SQLITE_OK>> /\ tRc[u] = <<SQLITE_NOMEM>>
    /\ Len(vfsList) >= 2
    /\ CountOf(vfsList, sqlite3_demovfs) = 1

====
